---- MODULE Spec2Model ----
(***************************************************************************)
(* State-machine model of solana-verifiable-build.                         *)
(*                                                                         *)
(*   Spec      the remote pipeline: send_job_to_remote (poller) running    *)
(*             beside the loading_animation thread (progress reporter),    *)
(*             against a verification service that answers InProgress      *)
(*             svcN times and then with a terminal status, or fails.       *)
(*   FairSpec  Spec with weak fairness of the poller and of the reporter.  *)
(*   SpecLocal the local pipelines of main.rs: verify-from-repo and        *)
(*             verify_from_image.                                          *)
(*   SpecHash  get_binary_hash applied to bounded byte buffers.            *)
(***************************************************************************)
EXTENDS Integers, Sequences, FiniteSets, TLC

VARIABLES
    \* ---- send_job_to_remote / check_job_status (api_client.rs) ----
    pc,          \* position of the poller's control flow
    program_id,  \* argument program_id
    respCode,    \* HTTP status of the POST /verify response (0: none yet)
    rawBody,     \* body of a rejected submission
    conflict,    \* <<payload>> of a 409 response, <<>> otherwise
    handle,      \* <<request_id>> once the job was accepted, <<>> otherwise
    status,      \* <<JobResponse>> last returned by check_job_status
    queries,     \* number of GET /job/{request_id} issued
    svcN,        \* the service's script: InProgress svcN times, then terminal
    svcLeft,     \* InProgress answers the service still has to give
    reply,       \* kind of the service's last answer to a status query
    chan,        \* values in flight on the unbounded channel
    sent,        \* number of values ever sent on the channel
    senderAlive, \* the Sender end has not been dropped
    result,      \* how send_job_to_remote ended: "none", "Ok", "Err", "Panic"
    err,         \* the error value carried by an Err result
    out,         \* lines printed so far, in order
    \* ---- loading_animation (api_client.rs) ----
    rpc,         \* position of the reporter thread
    got,         \* <<value>> received by try_recv, <<>> before
    spin,        \* frame of the spinner, advanced by pb.inc(1)
    relative_mount_path, \* argument relative_mount_path
    posted,      \* <<JSON body>> of the POST /verify request, <<>> before
    spawned,     \* number of reporter threads spawned
    recvd,       \* number of values the reporter took from the channel
    rests,       \* number of sleeps the poller has completed
    \* ---- main: verify-from-repo and verify_from_image (main.rs) ----
    lpc,          \* position of the local pipeline
    cmd,          \* the subcommand of this run: "repo" or "image"
    runs,         \* runs started so far, one at a time
    cloneDir,     \* /tmp/solana-verify/<base_name> exists
    cloned,       \* this run's git clone created the directory
    container,    \* the container started by docker run is alive
    programSo,    \* /tmp/program.so exists
    buffer,       \* <<bytes>> read from the executable by get_file_hash
    account_data, \* <<bytes>> of the program-data account after the metadata
    build_hash,   \* <<digest>> of the local executable
    program_hash, \* <<digest>> of the on-chain program data
    lresult,      \* how main ended: "none", "Ok", "Mismatch", "Err", "Panic"
    lerr,         \* the step that failed, "" if none
    \* ---- get_binary_hash on its own (main.rs) ----
    hB,           \* a byte buffer B
    hZ,           \* length of the all-zero suffix Z
    hPlain,       \* <<get_binary_hash(B)>>
    hPadded,      \* <<get_binary_hash(B ++ Z)>>
    hNorm,        \* <<normalization of B ++ Z>>
    hNorm2        \* <<normalization of hNorm>>

remoteVars == <<pc, program_id, respCode, rawBody, conflict, handle, status,
                queries, svcN, svcLeft, reply, chan, sent, senderAlive, result,
                err, out, rpc, got, spin, relative_mount_path, posted, spawned,
                recvd, rests>>

localVars == <<lpc, cmd, runs, cloneDir, cloned, container, programSo, buffer,
               account_data, build_hash, program_hash, lresult, lerr>>

hashVars == <<hB, hZ, hPlain, hPadded, hNorm, hNorm2>>

(***************************************************************************)
(* Bounds of the model.                                                    *)
(***************************************************************************)
MaxInProgress == 2

\* cap of the query counter, above what the service's script asks for
MaxQueries == MaxInProgress + 3

ProgramIds == {"Prog1", "Prog2"}
RequestIds == {"req1", "req2"}
Hashes     == {"hashA", "hashB"}
Bodies     == {"bad request", "internal error"}

\* tick_chars of the spinner: eight animated frames and the final one
SpinnerFrames == 9

(***************************************************************************)
(* JSON values (serde_json::Value) as pairs <<type, content>>.             *)
(***************************************************************************)
JNull     == <<"null", "">>
JBool(b)  == <<"bool", IF b THEN "true" ELSE "false">>
JStr(s)   == <<"str", s>>

\* as_bool that only tells whether the value is a boolean
as_bool_present(v) == IF v[1] = "bool" THEN <<TRUE>> ELSE <<>>

\* Value::as_bool: Some(b) for a boolean, None for anything else
as_bool(v) == IF v[1] = "bool" THEN <<v[2] = "true">> ELSE <<>>

\* Value::as_str().unwrap_or("")
as_str_or_empty(v) == IF v[1] = "str" THEN v[2] ELSE ""

\* StatusCode::is_success
is_success(code) == code >= 200 /\ code <= 299

\* format!("{:?}", text): the Debug form of a string is the string in quotes
DebugFmt(text) == <<"\"", text, "\"">>

JobStatus      == {"InProgress", "Completed", "Failed", "Unknown"}
TerminalStatus == {"Completed", "Failed", "Unknown"}

\* JobVerificationResponse bodies the service may answer with
JobVerificationResponses(st) ==
    [status : {st}, message : {"build failed"}, on_chain_hash : Hashes,
     executable_hash : Hashes, repo_url : {"https://repo"}]

\* 409 payloads: {is_verified, on_chain_hash, executable_hash} or
\* {status, error}; a key that is absent indexes to Null
ConflictPayloads ==
    [is_verified : {JBool(TRUE), JBool(FALSE), JNull, JStr("yes")},
     on_chain_hash : {JStr("hashA"), JNull},
     executable_hash : {JStr("hashB"), JNull},
     status : {JStr("error"), JStr("duplicate"), JNull},
     error : {JStr("build failed"), JNull}]

\* values of the argument relative_mount_path
MountPaths == {"", "programs/app"}

SuccessCodes == {200, 201}
OtherCodes   == {400, 500}

Line(by, text, arg) == [by |-> by, text |-> text, arg |-> arg]
Orch(text, arg)     == Line("orchestrator", text, arg)
Rep(text)           == Line("reporter", text, "")

(***************************************************************************)
(* Initial state: send_job_to_remote has been called, nothing sent yet.    *)
(***************************************************************************)
InitRemote ==
    /\ pc = "post"
    /\ program_id \in ProgramIds
    /\ respCode = 0
    /\ rawBody = ""
    /\ conflict = <<>>
    /\ handle = <<>>
    /\ status = <<>>
    /\ queries = 0
    /\ svcN \in 0..MaxInProgress
    /\ svcLeft = svcN
    /\ reply = "none"
    /\ chan = <<>>
    /\ sent = 0
    /\ senderAlive = FALSE
    /\ result = "none"
    /\ err = <<>>
    /\ out = <<>>
    /\ rpc = "none"
    /\ got = <<>>
    /\ spin = 0
    /\ relative_mount_path \in MountPaths
    /\ posted = <<>>
    /\ spawned = 0
    /\ recvd = 0
    /\ rests = 0

\* the function returns (or unwinds): the Sender, if any, is dropped
Return(res, e) ==
    /\ pc' = "done"
    /\ result' = res
    /\ err' = e
    /\ senderAlive' = FALSE

(***************************************************************************)
(* POST /verify and the dispatch on its response.                          *)
(***************************************************************************)
\* the path sent as it is, empty or not
MountPathOptionAsIs(path) == <<path>>

\* if relative_mount_path.is_empty() { None } else { Some(relative_mount_path) }
MountPathOption(path) == IF path = "" THEN <<>> ELSE <<path>>

\* json!: an Option<String> is null for None and the string for Some
JsonOfOption(opt) == IF opt = <<>> THEN JNull ELSE JStr(opt[1])

\* the body of POST /verify, as far as the arguments modelled go
RequestBody(prog, path) ==
    [program_id |-> JStr(prog), mount_path |-> JsonOfOption(MountPathOption(path))]

\* client.post(..).json(..).send()
Post == posted' = <<RequestBody(program_id, relative_mount_path)>>

\* thread::spawn(move || loading_animation(receiver))
Spawn ==
    /\ rpc' = "init"
    /\ spawned' = spawned + 1

\* thread::sleep is over
Sleep == rests' = rests + 1

\* .send().await? fails: no response at all
SubmitTransportError ==
    /\ pc = "post"
    /\ Post
    /\ Return("Err", <<"reqwest", "send">>)
    /\ UNCHANGED <<localVars, hashVars, program_id, respCode, rawBody, conflict, handle, status,
                   queries, svcN, svcLeft, chan, sent, out, rpc, got, spin, reply,
                   relative_mount_path, spawned, recvd, rests>>

\* a success response whose body is not a VerifyResponse: response.json()? fails
SubmitAcceptedBadJson ==
    /\ pc = "post"
    /\ Post
    /\ \E code \in SuccessCodes : respCode' = code
    /\ Return("Err", <<"reqwest", "decode">>)
    /\ UNCHANGED <<localVars, hashVars, program_id, rawBody, conflict, handle, status, queries,
                   svcN, svcLeft, chan, sent, out, rpc, got, spin, reply,
                   relative_mount_path, spawned, recvd, rests>>

\* the job is accepted: print, create the channel, spawn the reporter
SubmitAccepted ==
    /\ pc = "post"
    /\ Post
    /\ \E code \in SuccessCodes, id \in RequestIds :
         /\ is_success(code)
         /\ respCode' = code
         /\ handle' = <<id>>
    /\ out' = out \o <<Orch("Verification request sent.", ""),
                       Orch("Verification in progress...", "")>>
    /\ senderAlive' = TRUE
    /\ Spawn
    /\ pc' = "poll"
    /\ UNCHANGED <<localVars, hashVars, program_id, rawBody, conflict, status, queries, svcN,
                   svcLeft, chan, sent, result, err, got, spin, reply,
                   relative_mount_path, recvd, rests>>

\* the hashes printed the wrong way round
ConflictReportSwapped(p, prog) ==
    IF as_bool(p.is_verified) # <<>>
    THEN IF as_bool(p.is_verified)[1]
         THEN <<Orch("has already been verified.", prog),
                Orch("On Chain Hash:", as_str_or_empty(p.executable_hash)),
                Orch("Executable Hash:", as_str_or_empty(p.on_chain_hash))>>
         ELSE <<Orch("This request has already been processed.", ""),
                Orch("has not been verified.", prog)>>
    ELSE IF p.status = JStr("error")
         THEN <<Orch("Error message:", as_str_or_empty(p.error))>>
         ELSE <<Orch("This request has already been processed.", "")>>

\* the status looked at before is_verified
ConflictReportStatusFirst(p, prog) ==
    IF p.status = JStr("error")
    THEN <<Orch("Error message:", as_str_or_empty(p.error))>>
    ELSE IF as_bool(p.is_verified) # <<>>
    THEN IF as_bool(p.is_verified)[1]
         THEN <<Orch("has already been verified.", prog),
                Orch("On Chain Hash:", as_str_or_empty(p.on_chain_hash)),
                Orch("Executable Hash:", as_str_or_empty(p.executable_hash))>>
         ELSE <<Orch("This request has already been processed.", ""),
                Orch("has not been verified.", prog)>>
    ELSE <<Orch("This request has already been processed.", "")>>

\* the lines printed for a 409 payload
ConflictReport(p, prog) ==
    IF as_bool(p.is_verified) # <<>>
    THEN IF as_bool(p.is_verified)[1]
         THEN <<Orch("has already been verified.", prog),
                Orch("On Chain Hash:", as_str_or_empty(p.on_chain_hash)),
                Orch("Executable Hash:", as_str_or_empty(p.executable_hash))>>
         ELSE <<Orch("This request has already been processed.", ""),
                Orch("has not been verified.", prog)>>
    ELSE IF p.status = JStr("error")
         THEN <<Orch("Error message:", as_str_or_empty(p.error))>>
         ELSE <<Orch("This request has already been processed.", "")>>

\* 409 with a JSON payload
SubmitConflict ==
    /\ pc = "post"
    /\ Post
    /\ ~is_success(409)
    /\ \E p \in ConflictPayloads :
         /\ conflict' = <<p>>
         /\ out' = out \o ConflictReport(p, program_id)
    /\ respCode' = 409
    /\ Return("Ok", <<>>)
    /\ UNCHANGED <<localVars, hashVars, program_id, rawBody, handle, status, queries, svcN,
                   svcLeft, chan, sent, rpc, got, spin, reply,
                   relative_mount_path, spawned, recvd, rests>>

\* 409 whose body is no JSON: serde_json::from_str(..)? fails
SubmitConflictBadJson ==
    /\ pc = "post"
    /\ Post
    /\ respCode' = 409
    /\ Return("Err", <<"serde_json", "parse">>)
    /\ UNCHANGED <<localVars, hashVars, program_id, rawBody, conflict, handle, status, queries,
                   svcN, svcLeft, chan, sent, out, rpc, got, spin, reply,
                   relative_mount_path, spawned, recvd, rests>>

\* Err(anyhow!("{:?}", response.text().await?))
RejectErrorNoBody(body) == <<"anyhow", DebugFmt("")>>

RejectError(body) == <<"anyhow", DebugFmt(body)>>

\* any other status: the error carries the Debug form of the body
SubmitRejected ==
    /\ pc = "post"
    /\ Post
    /\ \E code \in OtherCodes, body \in Bodies :
         /\ ~is_success(code) /\ code # 409
         /\ respCode' = code
         /\ rawBody' = body
         /\ Return("Err", RejectError(body))
    /\ out' = Append(out, Line("orchestrator-stderr",
                  "Encountered an error while attempting to send the job to remote", ""))
    /\ UNCHANGED <<localVars, hashVars, program_id, conflict, handle, status, queries, svcN,
                   svcLeft, chan, sent, rpc, got, spin, reply,
                   relative_mount_path, spawned, recvd, rests>>

(***************************************************************************)
(* check_job_status: GET /job/{request_id}.                                *)
(***************************************************************************)
\* Failed handed back without its payload
JobResponseOfFailedBare(response) ==
    IF response.status \in {"InProgress", "Failed"}
    THEN [status |-> response.status, respose |-> <<>>]
    ELSE [status |-> response.status, respose |-> <<response>>]

\* Unknown handed back as InProgress
JobResponseOfUnknownPending(response) ==
    IF response.status \in {"InProgress", "Unknown"}
    THEN [status |-> "InProgress", respose |-> <<>>]
    ELSE [status |-> response.status, respose |-> <<response>>]

\* JobResponse for a parsed JobVerificationResponse
JobResponseOf(response) ==
    IF response.status = "InProgress"
    THEN [status |-> "InProgress", respose |-> <<>>]
    ELSE [status |-> response.status, respose |-> <<response>>]

\* the error is swallowed and the query tried again
PropagateRetry(e) == pc' = "poll" /\ UNCHANGED <<result, err, senderAlive>>

\* check_job_status(..).await? in the poll loop: an Err ends send_job_to_remote
Propagate(e) == Return("Err", e)

\* a status query is issued: GET /job/{request_id}
Get(kind) ==
    /\ pc = "poll"
    /\ queries < MaxQueries
    /\ queries' = queries + 1
    /\ reply' = kind

\* .send().await.unwrap() meets a transport failure: the poller panics
QueryTransportFailure ==
    /\ Get("transport-failure")
    /\ Return("Panic", <<"reqwest", "send">>)
    /\ UNCHANGED <<localVars, hashVars, program_id, respCode, rawBody, conflict, handle, status,
                   svcN, svcLeft, chan, sent, out, rpc, got, spin,
                   relative_mount_path, posted, spawned, recvd, rests>>

\* a non-success reply: Err carrying the Debug form of the body
QueryHttpError ==
    /\ Get("http-error")
    /\ \E code \in OtherCodes \cup {409}, body \in Bodies :
         /\ ~is_success(code)
         /\ Propagate(<<"anyhow-status", DebugFmt(body)>>)
    /\ UNCHANGED <<localVars, hashVars, program_id, respCode, rawBody, conflict, handle, status,
                   svcN, svcLeft, chan, sent, out, rpc, got, spin,
                   relative_mount_path, posted, spawned, recvd, rests>>

\* a success reply that is no JobVerificationResponse: response.json()? fails
QueryBadJson ==
    /\ Get("bad-json")
    /\ Propagate(<<"reqwest", "decode">>)
    /\ UNCHANGED <<localVars, hashVars, program_id, respCode, rawBody, conflict, handle, status,
                   svcN, svcLeft, chan, sent, out, rpc, got, spin,
                   relative_mount_path, posted, spawned, recvd, rests>>

\* the service reports InProgress: check_job_status rests before returning
QueryInProgress ==
    /\ Get("InProgress")
    /\ svcLeft > 0
    /\ svcLeft' = svcLeft - 1
    /\ status' = <<>>
    /\ pc' = "rest5"
    /\ UNCHANGED <<localVars, hashVars, program_id, respCode, rawBody, conflict, handle, svcN,
                   chan, sent, senderAlive, result, err, out, rpc, got, spin,
                   relative_mount_path, posted, spawned, recvd, rests>>

\* thread::sleep(5 s) is over: check_job_status returns InProgress
Rest5 ==
    /\ pc = "rest5"
    /\ Sleep
    /\ status' = <<JobResponseOf([status |-> "InProgress"])>>
    /\ pc' = "match"
    /\ UNCHANGED <<localVars, hashVars, program_id, respCode, rawBody, conflict, handle, queries,
                   svcN, svcLeft, reply, chan, sent, senderAlive, result, err,
                   out, rpc, got, spin,
                   relative_mount_path, posted, spawned, recvd>>

\* the service reports a terminal status
QueryTerminal ==
    /\ svcLeft = 0
    /\ \E st \in TerminalStatus : \E response \in JobVerificationResponses(st) :
         /\ Get(st)
         /\ status' = <<JobResponseOf(response)>>
    /\ pc' = "match"
    /\ UNCHANGED <<localVars, hashVars, program_id, respCode, rawBody, conflict, handle, svcN,
                   svcLeft, chan, sent, senderAlive, result, err, out, rpc,
                   got, spin,
                   relative_mount_path, posted, spawned, recvd, rests>>

(***************************************************************************)
(* The poll loop of send_job_to_remote.                                    *)
(***************************************************************************)
\* sender.send(v): delivered unless the receiver is gone; the result is dropped
Send(v) ==
    /\ chan' = IF rpc = "exited" THEN chan ELSE Append(chan, v)
    /\ sent' = sent + 1

\* a reporter spawned in every iteration of the loop
ArmInProgressRespawn ==
    /\ pc = "match"
    /\ status[1].status = "InProgress"
    /\ Sleep
    /\ Spawn
    /\ pc' = "poll"
    /\ UNCHANGED <<localVars, hashVars, program_id, respCode, rawBody, conflict,
                   handle, status, queries, svcN, svcLeft, chan, sent,
                   senderAlive, result, err, out, got, spin, reply,
                   relative_mount_path, posted, recvd>>

\* the next iteration without the rest
ArmInProgressNoSleep ==
    /\ pc = "match"
    /\ status[1].status = "InProgress"
    /\ pc' = "poll"
    /\ UNCHANGED <<localVars, hashVars, program_id, respCode, rawBody, conflict,
                   handle, status, queries, svcN, svcLeft, chan, sent,
                   senderAlive, result, err, out, rpc, got, spin, reply,
                   relative_mount_path, posted, spawned, recvd, rests>>

\* JobStatus::InProgress => thread::sleep(10 s), then the next iteration
ArmInProgress ==
    /\ pc = "match"
    /\ status[1].status = "InProgress"
    /\ Sleep
    /\ pc' = "poll"
    /\ UNCHANGED <<localVars, hashVars, program_id, respCode, rawBody, conflict, handle, status,
                   queries, svcN, svcLeft, chan, sent, senderAlive, result,
                   err, out, rpc, got, spin, reply,
                   relative_mount_path, posted, spawned, recvd>>

\* true sent by the Unknown arm as well
SignalOfNotFailed(st) == st # "Failed"

\* the value each terminal arm sends
SignalOf(st) == st = "Completed"

\* the Unknown arm without its break
ArmTerminalNoBreak(st) ==
    /\ pc = "match"
    /\ status[1].status = st
    /\ Send(SignalOf(st))
    /\ pc' = IF st = "Unknown" THEN "poll" ELSE "join"
    /\ UNCHANGED <<localVars, hashVars, program_id, respCode, rawBody, conflict, handle, status,
                   queries, svcN, svcLeft, senderAlive, result, err, out,
                   rpc, got, spin, reply,
                   relative_mount_path, posted, spawned, recvd, rests>>

\* the join placed before the send
ArmTerminalJoinFirst(st) ==
    /\ pc = "match"
    /\ status[1].status = st
    /\ rpc = "exited"
    /\ Send(SignalOf(st))
    /\ pc' = "report"
    /\ UNCHANGED <<localVars, hashVars, program_id, respCode, rawBody, conflict,
                   handle, status, queries, svcN, svcLeft, senderAlive, result,
                   err, out, rpc, got, spin, reply, relative_mount_path,
                   posted, spawned, recvd, rests>>

\* the arms Completed, Failed and Unknown up to handle.join()
ArmTerminal(st) ==
    /\ pc = "match"
    /\ status[1].status = st
    /\ Send(SignalOf(st))
    /\ pc' = "join"
    /\ UNCHANGED <<localVars, hashVars, program_id, respCode, rawBody, conflict, handle, status,
                   queries, svcN, svcLeft, senderAlive, result, err, out,
                   rpc, got, spin, reply,
                   relative_mount_path, posted, spawned, recvd, rests>>

ArmCompleted == ArmTerminal("Completed")
ArmFailed    == ArmTerminal("Failed")
ArmUnknown   == ArmTerminal("Unknown")

\* the join left out
JoinReadyNoWait == TRUE

\* handle.join() returns once the reporter thread has exited
JoinReady == rpc = "exited"

Join ==
    /\ pc = "join"
    /\ JoinReady
    /\ pc' = "report"
    /\ UNCHANGED <<localVars, hashVars, program_id, respCode, rawBody, conflict, handle, status,
                   queries, svcN, svcLeft, chan, sent, senderAlive, result,
                   err, out, rpc, got, spin, reply,
                   relative_mount_path, posted, spawned, recvd, rests>>

\* the lines an arm prints after the join
FinalReport(js, prog) ==
    IF js.status = "Completed"
    THEN <<Orch("has been successfully verified.", prog),
           Orch("The provided GitHub build matches the on-chain hash:", ""),
           Orch("On Chain Hash:", js.respose[1].on_chain_hash),
           Orch("Executable Hash:", js.respose[1].executable_hash),
           Orch("Repo URL:", js.respose[1].repo_url)>>
    ELSE IF js.status = "Failed"
    THEN <<Orch("has not been verified.", prog),
           Line("orchestrator-stderr", "Error message:", js.respose[1].message)>>
    ELSE <<Orch("has not been verified.", prog)>>

\* the arm needs the outcome: status.respose.unwrap()
NeedsOutcome(js) == js.status \in {"Completed", "Failed"}

\* the rest of a terminal arm: unwrap the outcome, print, break, Ok(())
Report ==
    /\ pc = "report"
    /\ IF NeedsOutcome(status[1]) /\ status[1].respose = <<>>
       THEN /\ Return("Panic", <<"unwrap", "None">>)
            /\ out' = out
       ELSE /\ out' = out \o FinalReport(status[1], program_id)
            /\ Return("Ok", <<>>)
    /\ UNCHANGED <<localVars, hashVars, program_id, respCode, rawBody, conflict, handle, status,
                   queries, svcN, svcLeft, chan, sent, rpc, got, spin, reply,
                   relative_mount_path, posted, spawned, recvd, rests>>

(***************************************************************************)
(* loading_animation: the reporter thread.                                 *)
(***************************************************************************)
\* the spinner is set up and its message set
ReporterStart ==
    /\ rpc = "init"
    /\ rpc' = "loop"
    /\ UNCHANGED <<localVars, hashVars, pc, program_id, respCode, rawBody, conflict, handle,
                   status, queries, svcN, svcLeft, chan, sent, senderAlive,
                   result, err, out, got, spin, reply,
                   relative_mount_path, posted, spawned, recvd, rests>>

\* receiver.try_recv() is Ok(result)
ReporterRecv ==
    /\ rpc = "loop"
    /\ chan # <<>>
    /\ got' = <<Head(chan)>>
    /\ chan' = Tail(chan)
    /\ recvd' = recvd + 1
    /\ rpc' = "finish"
    /\ UNCHANGED <<localVars, hashVars, pc, program_id, respCode, rawBody, conflict, handle,
                   status, queries, svcN, svcLeft, sent, senderAlive, result,
                   err, out, spin, reply,
                   relative_mount_path, posted, spawned, rests>>

\* the loop left when the channel is found disconnected
ReporterTickOrQuit ==
    /\ rpc = "loop"
    /\ chan = <<>>
    /\ IF senderAlive
       THEN spin' = (spin + 1) % SpinnerFrames /\ rpc' = rpc
       ELSE spin' = spin /\ rpc' = "exited"
    /\ UNCHANGED <<localVars, hashVars, pc, program_id, respCode, rawBody,
                   conflict, handle, status, queries, svcN, svcLeft, chan,
                   sent, senderAlive, result, err, out, got, reply,
                   relative_mount_path, posted, spawned, recvd, rests>>

\* receiver.try_recv() is Err(_), empty or disconnected alike: tick and sleep
ReporterTick ==
    /\ rpc = "loop"
    /\ chan = <<>>
    /\ spin' = (spin + 1) % SpinnerFrames
    /\ UNCHANGED <<localVars, hashVars, pc, program_id, respCode, rawBody, conflict, handle,
                   status, queries, svcN, svcLeft, chan, sent, senderAlive,
                   result, err, out, rpc, got, reply,
                   relative_mount_path, posted, spawned, recvd, rests>>

\* the final summary: one line on success, two on failure
Summary(ok) ==
    IF ok THEN <<Rep("Process completed.")>>
    ELSE <<Rep("Request processing failed."), Rep("Time elapsed :")>>

ReporterFinish ==
    /\ rpc = "finish"
    /\ out' = out \o Summary(got[1])
    /\ rpc' = "return"
    /\ UNCHANGED <<localVars, hashVars, pc, program_id, respCode, rawBody, conflict, handle,
                   status, queries, svcN, svcLeft, chan, sent, senderAlive,
                   result, err, got, spin, reply,
                   relative_mount_path, posted, spawned, recvd, rests>>

\* break: loading_animation returns and the thread ends
ReporterExit ==
    /\ rpc = "return"
    /\ rpc' = "exited"
    /\ UNCHANGED <<localVars, hashVars, pc, program_id, respCode, rawBody, conflict, handle,
                   status, queries, svcN, svcLeft, chan, sent, senderAlive,
                   result, err, out, got, spin, reply,
                   relative_mount_path, posted, spawned, recvd, rests>>

PollerNext ==
    \/ SubmitTransportError
    \/ SubmitAcceptedBadJson
    \/ SubmitAccepted
    \/ SubmitConflict
    \/ SubmitConflictBadJson
    \/ SubmitRejected
    \/ QueryTransportFailure
    \/ QueryHttpError
    \/ QueryBadJson
    \/ QueryInProgress
    \/ Rest5
    \/ QueryTerminal
    \/ ArmInProgress
    \/ ArmCompleted
    \/ ArmFailed
    \/ ArmUnknown
    \/ Join
    \/ Report

ReporterNext ==
    \/ ReporterStart
    \/ ReporterRecv
    \/ ReporterTick
    \/ ReporterFinish
    \/ ReporterExit

(***************************************************************************)
(* get_binary_hash (main.rs).                                              *)
(***************************************************************************)
\* .rev()
Rev(s) == [i \in 1..Len(s) |-> s[Len(s) + 1 - i]]

\* a skip that drops one zero byte only
skip_one_zero(s) ==
    IF s # <<>> /\ Head(s) = 0 THEN Tail(s) ELSE s

\* .skip_while(|&x| x == 0)
RECURSIVE skip_while_zero(_)
skip_while_zero(s) ==
    IF s = <<>> THEN <<>>
    ELSE IF Head(s) = 0 THEN skip_while_zero(Tail(s))
    ELSE s

\* the zeros skipped from the front: the first rev() left out
normalize_front(program_data) == skip_while_zero(program_data)

\* the local `buffer` of get_binary_hash: rev, skip_while, collect, rev, collect
normalize(program_data) == Rev(skip_while_zero(Rev(program_data)))

\* sha256::digest, idealised as collision-free: distinct inputs, distinct digests
digest(bytes) == <<"sha256", bytes>>

\* the digest of the bytes as they are
get_binary_hash_raw(program_data) == digest(program_data)

get_binary_hash(program_data) == digest(normalize(program_data))

(***************************************************************************)
(* The local pipelines (main.rs).                                          *)
(***************************************************************************)
MaxRuns     == 2
LocalMaxLen == 2

Bytes == {0, 1, 2}

SeqsUpTo(n) == UNION {[1..k -> Bytes] : k \in 0..n}

Elf       == <<127, 69, 76, 70>>
ElfPadded == <<127, 69, 76, 70, 0, 0, 0, 0>>

\* contents of an executable or of a program-data account past its metadata
LocalBufs == SeqsUpTo(LocalMaxLen) \cup {Elf, ElfPadded, <<1, 2>>, <<1, 3>>}

\* UpgradeableLoaderState::size_of_programdata_metadata()
size_of_programdata_metadata == 45

Metadata == [i \in 1..size_of_programdata_metadata |-> 1]

\* what get_account_data may return: metadata and data, or a truncated account
Accounts == {Metadata \o d : d \in LocalBufs}
                \cup {SubSeq(Metadata, 1, size_of_programdata_metadata - 1)}

Subcommands == {"repo", "image"}

InitLocal ==
    /\ lpc = "start"
    /\ cmd \in Subcommands
    /\ runs = 1
    /\ cloneDir = FALSE
    /\ cloned = FALSE
    /\ container = FALSE
    /\ programSo = FALSE
    /\ buffer = <<>>
    /\ account_data = <<>>
    /\ build_hash = <<>>
    /\ program_hash = <<>>
    /\ lresult = "none"
    /\ lerr = ""

\* a `?` returns the error of `step` from main
LFail(step) ==
    /\ lpc' = "done"
    /\ lresult' = "Err"
    /\ lerr' = step

\* if program_hash != build_hash { Err("Executable hash mismatch") } else { Ok }
Compare(ph, bh) == IF ph # bh THEN "Mismatch" ELSE "Ok"

\* get_file_hash: open, metadata, read_exact, get_binary_hash
GetFileHash(next) ==
    \/ /\ LFail("get_file_hash")
       /\ UNCHANGED <<buffer, build_hash>>
    \/ \E bytes \in LocalBufs :
         /\ buffer' = <<bytes>>
         /\ build_hash' = <<get_binary_hash(bytes)>>
         /\ lpc' = next
         /\ UNCHANGED <<lresult, lerr>>

\* client.get_account_data(..)?[offset..] and get_binary_hash of it
GetProgramHash(next) ==
    \/ /\ LFail("get_account_data")
       /\ UNCHANGED <<account_data, program_hash>>
    \/ \E acc \in Accounts :
         IF Len(acc) < size_of_programdata_metadata
         THEN /\ lpc' = "done"
              /\ lresult' = "Panic"
              /\ lerr' = "slice"
              /\ UNCHANGED <<account_data, program_hash>>
         ELSE /\ account_data' =
                    <<SubSeq(acc, size_of_programdata_metadata + 1, Len(acc))>>
              /\ program_hash' = <<get_binary_hash(
                    SubSeq(acc, size_of_programdata_metadata + 1, Len(acc)))>>
              /\ lpc' = next
              /\ UNCHANGED <<lresult, lerr>>

\* ---- SubCommand::VerifyFromRepo ----
\* run_fun!(basename $repo_url)?
RepoBasename ==
    /\ lpc = "start" /\ cmd = "repo"
    /\ \/ LFail("basename")
       \/ lpc' = "clone" /\ UNCHANGED <<lresult, lerr>>
    /\ UNCHANGED <<cmd, runs, cloneDir, cloned, container, programSo, buffer,
                   account_data, build_hash, program_hash>>
    /\ UNCHANGED <<remoteVars, hashVars>>

\* run_fun!(git clone $repo_url /tmp/solana-verify/$base_name)?: git refuses
\* an existing directory and removes what it created when it fails
RepoClone ==
    /\ lpc = "clone"
    /\ \/ LFail("git clone") /\ UNCHANGED <<cloneDir, cloned>>
       \/ /\ ~cloneDir
          /\ cloneDir' = TRUE
          /\ cloned' = TRUE
          /\ lpc' = "cd"
          /\ UNCHANGED <<lresult, lerr>>
    /\ UNCHANGED <<cmd, runs, container, programSo, buffer, account_data,
                   build_hash, program_hash>>
    /\ UNCHANGED <<remoteVars, hashVars>>

\* run_fun!(cd /tmp/solana-verify/$base_name)?
RepoCd ==
    /\ lpc = "cd"
    /\ \/ LFail("cd")
       \/ lpc' = "build" /\ UNCHANGED <<lresult, lerr>>
    /\ UNCHANGED <<cmd, runs, cloneDir, cloned, container, programSo, buffer,
                   account_data, build_hash, program_hash>>
    /\ UNCHANGED <<remoteVars, hashVars>>

\* build(Some(build_path), base_image)?: docker run and docker logs
RepoBuild ==
    /\ lpc = "build"
    /\ \/ LFail("build")
       \/ lpc' = "find" /\ UNCHANGED <<lresult, lerr>>
    /\ UNCHANGED <<cmd, runs, cloneDir, cloned, container, programSo, buffer,
                   account_data, build_hash, program_hash>>
    /\ UNCHANGED <<remoteVars, hashVars>>

\* run_fun!(find $solana_program_path/target/deploy -type f -name "*.so")?
RepoFind ==
    /\ lpc = "find"
    /\ \/ LFail("find")
       \/ lpc' = "file_hash" /\ UNCHANGED <<lresult, lerr>>
    /\ UNCHANGED <<cmd, runs, cloneDir, cloned, container, programSo, buffer,
                   account_data, build_hash, program_hash>>
    /\ UNCHANGED <<remoteVars, hashVars>>

\* get_file_hash(&executable_path)?
RepoFileHash ==
    /\ lpc = "file_hash" /\ cmd = "repo"
    /\ GetFileHash("rpc")
    /\ UNCHANGED <<cmd, runs, cloneDir, cloned, container, programSo,
                   account_data, program_hash>>
    /\ UNCHANGED <<remoteVars, hashVars>>

\* the on-chain program's hash, then the two hashes are printed
RepoProgramHash ==
    /\ lpc = "rpc" /\ cmd = "repo"
    /\ GetProgramHash("remove")
    /\ UNCHANGED <<cmd, runs, cloneDir, cloned, container, programSo, buffer,
                   build_hash>>
    /\ UNCHANGED <<remoteVars, hashVars>>

\* run_fun!(rm -rf /tmp/solana-verify/$base_name)?, then the comparison
RepoRemoveAndCompare ==
    /\ lpc = "remove"
    /\ \/ LFail("rm -rf") /\ UNCHANGED cloneDir
       \/ /\ cloneDir' = FALSE
          /\ lpc' = "done"
          /\ lresult' = Compare(program_hash[1], build_hash[1])
          /\ lerr' = ""
    /\ UNCHANGED <<cmd, runs, cloned, container, programSo, buffer,
                   account_data, build_hash, program_hash>>
    /\ UNCHANGED <<remoteVars, hashVars>>

\* ---- verify_from_image ----
\* run_fun!(docker run --rm -dit $image)?
ImageRun ==
    /\ lpc = "start" /\ cmd = "image"
    /\ \/ LFail("docker run") /\ UNCHANGED container
       \/ container' = TRUE /\ lpc' = "cp" /\ UNCHANGED <<lresult, lerr>>
    /\ UNCHANGED <<cmd, runs, cloneDir, cloned, programSo, buffer,
                   account_data, build_hash, program_hash>>
    /\ UNCHANGED <<remoteVars, hashVars>>

\* run_cmd!(docker cp $container_id:/build/$executable_path /tmp/program.so)?
ImageCopy ==
    /\ lpc = "cp"
    /\ \/ LFail("docker cp") /\ UNCHANGED programSo
       \/ programSo' = TRUE /\ lpc' = "file_hash" /\ UNCHANGED <<lresult, lerr>>
    /\ UNCHANGED <<cmd, runs, cloneDir, cloned, container, buffer,
                   account_data, build_hash, program_hash>>
    /\ UNCHANGED <<remoteVars, hashVars>>

\* get_file_hash("/tmp/program.so")?
ImageFileHash ==
    /\ lpc = "file_hash" /\ cmd = "image"
    /\ GetFileHash("rpc")
    /\ UNCHANGED <<cmd, runs, cloneDir, cloned, container, programSo,
                   account_data, program_hash>>
    /\ UNCHANGED <<remoteVars, hashVars>>

\* the on-chain program's hash, then the two hashes are printed
ImageProgramHash ==
    /\ lpc = "rpc" /\ cmd = "image"
    /\ GetProgramHash("kill")
    /\ UNCHANGED <<cmd, runs, cloneDir, cloned, container, programSo, buffer,
                   build_hash>>
    /\ UNCHANGED <<remoteVars, hashVars>>

\* run_fun!(docker kill $container_id)?
ImageKill ==
    /\ lpc = "kill"
    /\ \/ LFail("docker kill") /\ UNCHANGED container
       \/ container' = FALSE /\ lpc' = "rm" /\ UNCHANGED <<lresult, lerr>>
    /\ UNCHANGED <<cmd, runs, cloneDir, cloned, programSo, buffer,
                   account_data, build_hash, program_hash>>
    /\ UNCHANGED <<remoteVars, hashVars>>

\* run_fun!(rm "/tmp/program.so")?, then the comparison
ImageRemoveAndCompare ==
    /\ lpc = "rm"
    /\ \/ LFail("rm") /\ UNCHANGED programSo
       \/ /\ programSo' = FALSE
          /\ lpc' = "done"
          /\ lresult' = Compare(program_hash[1], build_hash[1])
          /\ lerr' = ""
    /\ UNCHANGED <<cmd, runs, cloneDir, cloned, container, buffer,
                   account_data, build_hash, program_hash>>
    /\ UNCHANGED <<remoteVars, hashVars>>

\* the tool is invoked again, one run at a time, on the same machine
StartRun ==
    /\ lpc = "done"
    /\ runs < MaxRuns
    /\ runs' = runs + 1
    /\ cmd' \in Subcommands
    /\ lpc' = "start"
    /\ cloned' = FALSE
    /\ buffer' = <<>>
    /\ account_data' = <<>>
    /\ build_hash' = <<>>
    /\ program_hash' = <<>>
    /\ lresult' = "none"
    /\ lerr' = ""
    /\ UNCHANGED <<cloneDir, container, programSo>>
    /\ UNCHANGED <<remoteVars, hashVars>>

NextLocal ==
    \/ RepoBasename
    \/ RepoClone
    \/ RepoCd
    \/ RepoBuild
    \/ RepoFind
    \/ RepoFileHash
    \/ RepoProgramHash
    \/ RepoRemoveAndCompare
    \/ ImageRun
    \/ ImageCopy
    \/ ImageFileHash
    \/ ImageProgramHash
    \/ ImageKill
    \/ ImageRemoveAndCompare
    \/ StartRun

(***************************************************************************)
(* get_binary_hash applied to a buffer B and to B followed by zeros.       *)
(***************************************************************************)
HashMaxLen == 3
MaxPad     == 2

Zeros(n) == [i \in 1..n |-> 0]

InitHash ==
    /\ hB \in SeqsUpTo(HashMaxLen)
    /\ hZ \in 0..MaxPad
    /\ hPlain = <<>>
    /\ hPadded = <<>>
    /\ hNorm = <<>>
    /\ hNorm2 = <<>>

HashPlain ==
    /\ hPlain = <<>>
    /\ hPlain' = <<get_binary_hash(hB)>>
    /\ UNCHANGED <<hB, hZ, hPadded, hNorm, hNorm2>>
    /\ UNCHANGED <<remoteVars, localVars>>

HashPadded ==
    /\ hPadded = <<>>
    /\ hPadded' = <<get_binary_hash(hB \o Zeros(hZ))>>
    /\ UNCHANGED <<hB, hZ, hPlain, hNorm, hNorm2>>
    /\ UNCHANGED <<remoteVars, localVars>>

Normalize ==
    /\ hNorm = <<>>
    /\ hNorm' = <<normalize(hB \o Zeros(hZ))>>
    /\ UNCHANGED <<hB, hZ, hPlain, hPadded, hNorm2>>
    /\ UNCHANGED <<remoteVars, localVars>>

NormalizeAgain ==
    /\ hNorm # <<>>
    /\ hNorm2 = <<>>
    /\ hNorm2' = <<normalize(hNorm[1])>>
    /\ UNCHANGED <<hB, hZ, hPlain, hPadded, hNorm>>
    /\ UNCHANGED <<remoteVars, localVars>>

NextHash == HashPlain \/ HashPadded \/ Normalize \/ NormalizeAgain

(***************************************************************************)
(* The specifications. Each runs one part and holds the others still.      *)
(***************************************************************************)
IdleRemote ==
    /\ pc = "idle"
    /\ program_id = "Prog1"
    /\ respCode = 0
    /\ rawBody = ""
    /\ conflict = <<>>
    /\ handle = <<>>
    /\ status = <<>>
    /\ queries = 0
    /\ svcN = 0
    /\ svcLeft = 0
    /\ reply = "none"
    /\ chan = <<>>
    /\ sent = 0
    /\ senderAlive = FALSE
    /\ result = "none"
    /\ err = <<>>
    /\ out = <<>>
    /\ rpc = "none"
    /\ got = <<>>
    /\ spin = 0
    /\ relative_mount_path = ""
    /\ posted = <<>>
    /\ spawned = 0
    /\ recvd = 0
    /\ rests = 0

IdleLocal ==
    /\ lpc = "idle"
    /\ cmd = "none"
    /\ runs = 0
    /\ cloneDir = FALSE
    /\ cloned = FALSE
    /\ container = FALSE
    /\ programSo = FALSE
    /\ buffer = <<>>
    /\ account_data = <<>>
    /\ build_hash = <<>>
    /\ program_hash = <<>>
    /\ lresult = "none"
    /\ lerr = ""

IdleHash ==
    /\ hB = <<>>
    /\ hZ = 0
    /\ hPlain = <<>>
    /\ hPadded = <<>>
    /\ hNorm = <<>>
    /\ hNorm2 = <<>>

vars == <<remoteVars, localVars, hashVars>>

Init == InitRemote /\ IdleLocal /\ IdleHash

Next == PollerNext \/ ReporterNext

Spec == Init /\ [][Next]_vars

InitSpecLocal == IdleRemote /\ InitLocal /\ IdleHash

SpecLocal == InitSpecLocal /\ [][NextLocal]_vars

InitSpecHash == IdleRemote /\ IdleLocal /\ InitHash

SpecHash == InitSpecHash /\ [][NextHash]_vars

FairSpec == Spec /\ WF_vars(PollerNext) /\ WF_vars(ReporterNext)

(***************************************************************************)
(* Properties of the remote pipeline.                                      *)
(***************************************************************************)
LastStatus == IF status = <<>> THEN "none" ELSE status[1].status

TerminalObserved == LastStatus \in TerminalStatus

ReporterRunning == rpc \in {"init", "loop", "finish", "return"}

OrchLines == SelectSeq(out, LAMBDA l : l.by # "reporter")
RepLines  == SelectSeq(out, LAMBDA l : l.by = "reporter")

Preamble == <<Orch("Verification request sent.", ""),
              Orch("Verification in progress...", "")>>

\* C1: once a status query has returned Completed, Failed or Unknown, no
\* further status query is issued and the observed status never changes:
\* the poll loop moves InProgress -> InProgress or InProgress -> terminal
\* and never leaves a terminal state.
C1_NoQueryAfterTerminal ==
    [][TerminalObserved => (queries' = queries /\ status' = status)]_vars

C1_Witness ==
    /\ pc = "done"
    /\ TerminalObserved
    /\ queries = svcN + 1
    /\ svcN >= 1

\* C2: in every interleaving of poller and reporter: the signal is sent only
\* after a terminal status was observed, the reporter prints its summary only
\* after it received the signal, it exits only after printing, the poller
\* passes the join only after the reporter exited, and the orchestrator's
\* final report follows the reporter's summary in the output; while the
\* reporter runs no orchestrator line is printed.
C2_Ordering ==
    /\ sent > 0 => TerminalObserved
    /\ got # <<>> => sent > 0
    /\ RepLines # <<>> => got # <<>>
    /\ rpc \in {"return", "exited"} => RepLines # <<>>
    /\ pc = "report" => rpc = "exited"
    /\ ReporterRunning => OrchLines = Preamble
    /\ Len(OrchLines) > Len(Preamble) /\ handle # <<>> =>
          /\ rpc = "exited"
          /\ \E k \in 1..Len(out) :
               /\ \A i \in 1..k : out[i].by = "reporter" \/ i <= Len(Preamble)
               /\ \A i \in (k+1)..Len(out) : out[i].by # "reporter"

C2_Witness ==
    /\ pc = "done"
    /\ result = "Ok"
    /\ got = <<FALSE>>
    /\ Len(RepLines) = 2
    /\ Len(OrchLines) = 4

\* C4: a 409 response with is_verified = true ends in success, having
\* printed "already verified" with the payload's on-chain and executable
\* hashes; no status query is issued and the poll loop (and its reporter)
\* is never entered.
C4_ConflictVerified ==
    (conflict # <<>> /\ conflict[1].is_verified = JBool(TRUE)) =>
        /\ pc = "done"
        /\ result = "Ok"
        /\ queries = 0
        /\ rpc = "none"
        /\ Len(out) = 3
        /\ out[1] = Orch("has already been verified.", program_id)
        /\ out[2].text = "On Chain Hash:"
        /\ out[3].text = "Executable Hash:"
        /\ conflict[1].on_chain_hash[1] = "str" =>
              out[2].arg = conflict[1].on_chain_hash[2]
        /\ conflict[1].executable_hash[1] = "str" =>
              out[3].arg = conflict[1].executable_hash[2]

C4_Witness ==
    /\ conflict # <<>>
    /\ conflict[1].is_verified = JBool(TRUE)
    /\ conflict[1].on_chain_hash = JStr("hashA")
    /\ conflict[1].executable_hash = JStr("hashB")
    /\ pc = "done"

\* C5: a 409 response with is_verified = false reports that the program has
\* not been verified and issues no status query.
C5_ConflictNotVerified ==
    (conflict # <<>> /\ conflict[1].is_verified = JBool(FALSE)) =>
        /\ pc = "done"
        /\ queries = 0
        /\ rpc = "none"
        /\ out = <<Orch("This request has already been processed.", ""),
                   Orch("has not been verified.", program_id)>>

C5_Witness ==
    /\ conflict # <<>>
    /\ conflict[1].is_verified = JBool(FALSE)
    /\ pc = "done"
    /\ result = "Ok"

PollStopped ==
    \/ TerminalObserved
    \/ pc = "done" /\ result \in {"Err", "Panic"}

\* C6: against a service that answers InProgress svcN times and then with a
\* terminal status, or with a failure at any point, at most svcN + 1 status
\* queries are issued and an accepted job's poll loop eventually stops: a
\* terminal status is observed or the query failed fatally.
C6_PollTerminates ==
    /\ [](queries <= svcN + 1)
    /\ (pc = "poll") ~> PollStopped

C6_Witness ==
    /\ svcN = MaxInProgress
    /\ queries = svcN + 1
    /\ TerminalObserved

QueryFailed == reply \in {"transport-failure", "http-error", "bad-json"}

SuccessReport ==
    \E i \in 1..Len(out) : out[i].text = "has been successfully verified."

\* C9: a failed status query (transport failure, non-success reply, or a
\* reply that does not parse) ends send_job_to_remote with an error or a
\* panic that reaches its caller; no status query follows it and no success
\* report is printed.
C9_QueryFailureFatal ==
    /\ [](QueryFailed =>
            /\ pc = "done"
            /\ result \in {"Err", "Panic"}
            /\ ~SuccessReport
            /\ OrchLines = Preamble)
    /\ [][QueryFailed => queries' = queries]_vars

C9_Witness ==
    /\ QueryFailed
    /\ queries = 2
    /\ pc = "done"
    /\ rpc = "loop"

\* C10: a submission response that is neither a success nor a 409 ends in
\* an error that carries the response body; no status query is issued, no
\* reporter is started and nothing is sent on the channel.
C10_SubmitRejected ==
    (respCode # 0 /\ ~is_success(respCode) /\ respCode # 409) =>
        /\ pc = "done"
        /\ result = "Err"
        /\ err[1] = "anyhow"
        /\ err[2][2] = rawBody
        /\ rawBody \in Bodies
        /\ queries = 0
        /\ rpc = "none"
        /\ sent = 0
        /\ chan = <<>>

C10_Witness ==
    /\ respCode = 500
    /\ rawBody = "internal error"
    /\ result = "Err"

(***************************************************************************)
(* Properties of the local pipelines and of get_binary_hash.               *)
(***************************************************************************)
\* C3: once a verify-from-repo run has created the clone directory, the
\* directory is gone when the run has ended, however it ended; so no clone
\* directory is left behind after any sequence of completed runs.
C3_CloneDirRemoved ==
    lpc = "done" => ~cloneDir

\* C7: for every buffer B and every all-zero suffix Z the hash of B ++ Z is
\* the hash of B, and normalizing a normalized buffer returns it unchanged.
C7_PaddingIgnored ==
    /\ (hPlain # <<>> /\ hPadded # <<>>) => hPlain = hPadded
    /\ hNorm2 # <<>> => hNorm2 = hNorm

C7_Witness ==
    /\ hB = <<1, 0>>
    /\ hZ = 2
    /\ hPlain # <<>>
    /\ hPadded # <<>>
    /\ hNorm2 = <<(<<1>>)>>

\* the longest prefix of b that is empty or ends in a non-zero byte
Trimmed(b) ==
    LET ends == {k \in 0..Len(b) : k = 0 \/ b[k] # 0}
        last == CHOOSE k \in ends : \A j \in ends : j <= k
    IN  SubSeq(b, 1, last)

HashesKnown == build_hash # <<>> /\ program_hash # <<>>

SameProgram == Trimmed(buffer[1]) = Trimmed(account_data[1])

\* C8 as stated: a local pipeline that has hashed both the executable and
\* the on-chain data ends in success exactly when the two agree up to
\* trailing zeros, and in the mismatch failure exactly when they do not.
C8_ExactlyWhen ==
    (lpc = "done" /\ HashesKnown) =>
        /\ lresult = "Ok" <=> SameProgram
        /\ lresult = "Mismatch" <=> ~SameProgram

\* C8, amended: a local pipeline ends in success only if the executable and
\* the on-chain data agree up to trailing zeros and in the mismatch failure
\* only if they do not; a run that has hashed both ends otherwise only in
\* the error of its cleanup step (rm -rf; docker kill or rm).
C8_Verdict ==
    lpc = "done" =>
        /\ lresult = "Ok" => HashesKnown /\ SameProgram
        /\ lresult = "Mismatch" => HashesKnown /\ ~SameProgram
        /\ (HashesKnown /\ lresult \notin {"Ok", "Mismatch"}) =>
              /\ lresult = "Err"
              /\ lerr \in {"rm -rf", "docker kill", "rm"}

C8_Witness ==
    /\ lpc = "done"
    /\ lresult = "Ok"
    /\ buffer = <<Elf>>
    /\ account_data = <<ElfPadded>>

C8_WitnessMismatch ==
    /\ lpc = "done"
    /\ lresult = "Mismatch"
    /\ buffer = <<(<<1, 3>>)>>
    /\ account_data = <<(<<1, 2>>)>>

(***************************************************************************)
(* Further properties of the remote pipeline.                              *)
(***************************************************************************)
Outcome == IF status = <<>> THEN <<>> ELSE status[1].respose

\* C11 as stated: the JobResponse returned by check_job_status carries an
\* outcome only when the status is Completed or Failed; for InProgress and
\* for Unknown the outcome is absent.
C11_OutcomeOnlyCompletedFailed ==
    Outcome # <<>> => LastStatus \in {"Completed", "Failed"}

\* C11, amended: the JobResponse carries the parsed response for Completed,
\* Failed and Unknown and nothing for InProgress; so the unwrap of the
\* outcome in the Completed and Failed arms never meets an absent value.
C11_OutcomePresence ==
    /\ status # <<>> =>
          /\ Outcome # <<>> <=> LastStatus \in TerminalStatus
          /\ Outcome # <<>> => Outcome[1].status = LastStatus
    /\ (pc = "report" /\ NeedsOutcome(status[1])) => Outcome # <<>>
    /\ result # "Panic" \/ err # <<"unwrap", "None">>

C11_Witness ==
    /\ pc = "done"
    /\ result = "Ok"
    /\ LastStatus = "Failed"
    /\ Outcome # <<>>
    /\ Len(OrchLines) = 4

\* C12: over a run of send_job_to_remote at most one value is ever sent on
\* the channel and the reporter takes at most one value from it.
C12_OneShot ==
    /\ sent <= 1
    /\ recvd <= 1
    /\ Len(chan) <= 1
    /\ recvd + Len(chan) = sent

C12_Witness ==
    /\ sent = 1
    /\ recvd = 1
    /\ chan = <<>>
    /\ pc = "done"

PollerState == <<pc, program_id, respCode, rawBody, conflict, handle, status,
                 queries, svcN, svcLeft, reply, sent, result, err,
                 relative_mount_path, posted, spawned, rests>>

ReporterState == <<rpc, got, spin, recvd>>

InPollLoop == pc \in {"poll", "rest5", "match", "join", "report"}

Signal == LastStatus = "Completed"

ErrorLines == SelectSeq(out, LAMBDA l : l.text = "Error message:")

\* C14: the value sent is true exactly when the terminal status is
\* Completed and false for Failed and Unknown; the reporter prints the
\* success summary exactly when it received true; after Failed the message
\* of the response is printed, after Unknown no message is.
C14_SignalValue ==
    /\ \A i \in 1..Len(chan) : chan[i] = Signal
    /\ got # <<>> => got[1] = Signal
    /\ RepLines # <<>> =>
          RepLines = IF Signal THEN <<Rep("Process completed.")>>
                     ELSE <<Rep("Request processing failed."),
                            Rep("Time elapsed :")>>
    /\ (pc = "done" /\ result = "Ok" /\ handle # <<>>) =>
          /\ LastStatus = "Failed" =>
                /\ Len(ErrorLines) = 1
                /\ ErrorLines[1].arg = Outcome[1].message
                /\ ~SuccessReport
          /\ LastStatus = "Unknown" => ErrorLines = <<>> /\ ~SuccessReport
          /\ LastStatus = "Completed" => ErrorLines = <<>> /\ SuccessReport

C14_Witness ==
    /\ pc = "done"
    /\ result = "Ok"
    /\ LastStatus = "Unknown"
    /\ got = <<FALSE>>
    /\ Len(RepLines) = 2
    /\ Len(OrchLines) = 3

(***************************************************************************)
(* Further properties of get_binary_hash and of the 409 branch.            *)
(***************************************************************************)
AllZero(b) == \A i \in 1..Len(b) : b[i] = 0

\* C15: normalization removes exactly the maximal run of zero bytes at the
\* end: the result is the longest prefix of the input that is empty or ends
\* in a non-zero byte, zeros before it stay where they are, and an all-zero
\* or empty buffer normalizes to the empty buffer and hashes like it.
C15_StripsTrailingRun ==
    /\ hNorm # <<>> =>
          /\ hNorm[1] = Trimmed(hB \o Zeros(hZ))
          /\ hNorm[1] = <<>> \/ hNorm[1][Len(hNorm[1])] # 0
          /\ \A i \in 1..Len(hNorm[1]) : hNorm[1][i] = hB[i]
          /\ \A i \in (Len(hNorm[1]) + 1)..Len(hB) : hB[i] = 0
          /\ AllZero(hB) => hNorm[1] = <<>>
    /\ (AllZero(hB) /\ hPlain # <<>>) => hPlain[1] = digest(<<>>)
    /\ (AllZero(hB) /\ hPadded # <<>>) => hPadded[1] = digest(<<>>)

C15_Witness ==
    /\ hB = <<0, 1, 0>>
    /\ hZ = 1
    /\ hNorm = <<(<<0, 1>>)>>
    /\ hPadded # <<>>

C15_WitnessAllZero ==
    /\ hB = <<0, 0>>
    /\ hZ = 2
    /\ hNorm = <<(<<>>)>>
    /\ hPlain # <<>>
    /\ hPadded # <<>>

Payload == conflict[1]

IsBool(v) == v \in {JBool(TRUE), JBool(FALSE)}

Aborted == spawned = 1 /\ pc = "done" /\ sent = 0

\* C17: when the poller's control flow ends after the reporter was started
\* and before anything was sent, the reporter never receives a value, never
\* prints a summary and never leaves its loop: with the Sender dropped it
\* goes on ticking for ever.
C17_ReporterHangs ==
    /\ [](Aborted =>
            /\ rpc \in {"init", "loop"}
            /\ RepLines = <<>>
            /\ recvd = 0
            /\ ~senderAlive)
    /\ [][Aborted => Aborted']_vars
    /\ Aborted ~> (spin = 0)
    /\ Aborted ~> (spin = 1)

C17_Witness ==
    /\ Aborted
    /\ reply = "http-error"
    /\ rpc = "loop"
    /\ spin = 5
    /\ ~senderAlive

\* C18: the first status query after a successful submit is issued with no
\* rest before it; every later query follows an InProgress reply and the
\* rests that reply calls for (5 s in check_job_status, 10 s in the loop).
C18_RestBetweenQueries ==
    /\ [][queries' = queries + 1 =>
            IF queries = 0 THEN rests = 0
            ELSE reply = "InProgress" /\ rests = 2 * queries]_vars
    /\ [](rests <= 2 * queries)

C18_Witness ==
    /\ queries = 3
    /\ rests = 4
    /\ reply \in TerminalStatus

FinalReportPrinted == Len(OrchLines) > Len(Preamble)

\* C19: once the poller has observed a terminal status, under fair
\* scheduling of poller and reporter the reporter receives the value and
\* exits, the join returns, and send_job_to_remote prints its final report
\* and returns Ok.
C19_JoinReturns ==
    TerminalObserved ~>
        (pc = "done" /\ result = "Ok" /\ rpc = "exited" /\ recvd = 1
            /\ FinalReportPrinted)

C19_Witness ==
    /\ pc = "done"
    /\ result = "Ok"
    /\ rpc = "exited"
    /\ LastStatus = "Completed"
    /\ FinalReportPrinted
    /\ svcN = 1

(***************************************************************************)
(* The request body.                                                       *)
(***************************************************************************)
WireMountPath == posted[1].mount_path

\* C20: in the body of POST /verify an empty relative mount path is sent
\* as null, the wire value of an absent path, and a non-empty path is sent
\* unchanged.
C20_MountPathWire ==
    posted # <<>> =>
        /\ relative_mount_path = "" =>
              /\ WireMountPath = JNull
              /\ WireMountPath = JsonOfOption(<<>>)
        /\ relative_mount_path # "" =>
              WireMountPath = JStr(relative_mount_path)

C20_Witness ==
    /\ posted # <<>>
    /\ relative_mount_path = ""
    /\ WireMountPath = JNull
    /\ respCode = 200

C20_WitnessPath ==
    /\ posted # <<>>
    /\ relative_mount_path = "programs/app"
    /\ WireMountPath = JStr("programs/app")

====
